---- MODULE Spec2Model ----
(***************************************************************************)
(* A model of smallsh (src/small_shell.c): the interactive loop of main,   *)
(* the parser, the built-in commands, fork/exec of external commands, the  *)
(* forked children, the wait calls, and the two signals SIGINT / SIGTSTP.  *)
(*                                                                         *)
(* The shell process is a program counter (pc) over the steps of main's    *)
(* loop; every child is a record in the kernel's process table (children). *)
(* Signals and the children's own steps interleave freely with the loop.   *)
(* Not modelled: end-of-file on standard input (fgets' result is not       *)
(* examined by the code), and signals other than SIGINT/SIGTSTP sent to    *)
(* the shell process itself.                                               *)
(*                                                                         *)
(* Spec and LiveSpec are the session of the shell. Three more              *)
(* specifications take one function alone, on inputs the session does not  *)
(* range over: ParseSpec (parse_input on every well-formed line, parsed    *)
(* again after SIGTSTP), ScanSpec (the token loop of parse_input on lines  *)
(* up to the size of the buffer) and RedirSpec (file_redirection on every  *)
(* combination of paths, background flag and outcome of the opens).        *)
(***************************************************************************)
EXTENDS Integers, Sequences, FiniteSets, TLC

(***************************************************************************)
(* Bounds of the model.                                                    *)
(***************************************************************************)
MaxPid == 2
MaxTstp == 2
MaxExit == 1
MaxTokens == 1
MaxParses == 2
MaxWord == 2

(***************************************************************************)
(* Sizes of the program.                                                   *)
(***************************************************************************)
INPUT_LENGTH == 2048
MAX_ARGS == 512

(***************************************************************************)
(* Signal numbers and wait-status encoding of the platform (Linux).        *)
(***************************************************************************)
SIGINT == 2
SIGSEGV == 11

Null == "(null)"

Pids == 1..MaxPid
ExitCodes == 0..MaxExit

\* How a process ended, as the kernel knows it.
Exited(n) == [how |-> "exit", n |-> n, core |-> FALSE]
Signaled(s, c) == [how |-> "signal", n |-> s, core |-> c]
NoOutcome == [how |-> "none", n |-> 0, core |-> FALSE]

\* The raw status word waitpid stores for an outcome.
WaitStatus(o) ==
    IF o.how = "exit" THEN (o.n % 256) * 256
    ELSE o.n + (IF o.core THEN 128 ELSE 0)

\* <sys/wait.h> macros, on the raw status word.
WTERMSIG(s) == s % 128
WEXITSTATUS(s) == (s \div 256) % 256
WIFEXITED(s) == WTERMSIG(s) = 0
SignedChar(x) == IF x % 256 >= 128 THEN (x % 256) - 256 ELSE x % 256
WIFSIGNALED(s) == (SignedChar(WTERMSIG(s) + 1) \div 2) > 0

(***************************************************************************)
(* Input lines. A line is blank ("\n"), a comment (first byte '#'), or     *)
(* text: a sequence of whitespace-separated tokens (possibly none, for a   *)
(* line of spaces only).                                                   *)
(***************************************************************************)
Tokens == {"exit", "cd", "status", "ls", "<", ">", "&"}
Names == {"exit", "cd", "status", "ls"}

RECURSIVE SeqsUpTo(_, _)
SeqsUpTo(S, n) ==
    IF n = 0 THEN {<<>>}
    ELSE LET shorter == SeqsUpTo(S, n - 1)
         IN shorter \cup {Append(s, t) : s \in shorter, t \in S}

Opt(s) == {<<>>, s}

\* name [arg] [< input_path] [> output_path] [&]
WellFormedLines ==
    {<<nm>> \o a \o i \o o \o b :
        nm \in Names, a \in Opt(<<"d">>), i \in Opt(<<"<", "d">>),
        o \in Opt(<<">", "d">>), b \in Opt(<<"&">>)}

\* The lines of a session: every built-in with and without an argument and a
\* trailing "&", the external command alone, with "&" and redirected (once
\* with "&" where the path is expected), and every line of at most
\* MaxTokens arbitrary tokens.
SessionLines ==
    {<<nm>> \o a \o b : nm \in {"exit", "cd", "status"}, a \in Opt(<<"d">>),
                         b \in Opt(<<"&">>)}
    \cup {<<"cd", "ls">>}
    \cup {<<"ls">>, <<"ls", "&">>, <<"ls", "<", "d">>, <<"ls", ">", "d", "&">>,
          <<"ls", ">", "&">>}

TextLines == SessionLines \cup SeqsUpTo(Tokens, MaxTokens)

Lines ==
    {[kind |-> "blank", toks |-> <<>>], [kind |-> "comment", toks |-> <<>>]}
    \cup {[kind |-> "text", toks |-> t] : t \in TextLines}

(***************************************************************************)
(* struct command_line, and the parser.                                    *)
(***************************************************************************)
\* calloc(1, sizeof(struct command_line)): everything zero. The field ub
\* records that the parse dereferenced a null pointer (strdup(NULL)).
ZeroCommand ==
    [arg_variables |-> <<>>, input_file |-> Null, output_file |-> Null,
     is_background |-> FALSE, ub |-> FALSE]

arg_count(c) == Len(c.arg_variables)

\* The token loop of parse_input, from token index i on, with the value of
\* foreground_only read at the "&" token.
RECURSIVE ParseTokens(_, _, _, _)
ParseTokens(toks, i, c, fo) ==
    IF i > Len(toks) THEN c
    ELSE IF toks[i] = "<" THEN
        IF i + 1 > Len(toks)
        THEN [c EXCEPT !.ub = TRUE]
        ELSE ParseTokens(toks, i + 2, [c EXCEPT !.input_file = toks[i + 1]], fo)
    ELSE IF toks[i] = ">" THEN
        IF i + 1 > Len(toks)
        THEN [c EXCEPT !.ub = TRUE]
        ELSE ParseTokens(toks, i + 2, [c EXCEPT !.output_file = toks[i + 1]], fo)
    ELSE IF toks[i] = "&" THEN
        ParseTokens(toks, i + 1,
                    IF fo = 0 THEN [c EXCEPT !.is_background = TRUE] ELSE c, fo)
    ELSE
        ParseTokens(toks, i + 1,
                    [c EXCEPT !.arg_variables = Append(@, toks[i])], fo)

\* Mutant: the "&" token is honoured whatever foreground_only says.
ParseLine_IgnoresMode(toks, fo) == ParseTokens(toks, 1, ZeroCommand, 0)

\* Mutant: in foreground-only mode the "&" token falls through to the last
\* branch of the token loop and is stored as an argument.
ParseLine_AmpBecomesArgument(toks, fo) ==
    LET c == ParseTokens(toks, 1, ZeroCommand, fo)
    IN IF fo # 0 /\ Len(toks) >= 2 /\ toks[Len(toks)] = "&"
          /\ toks[Len(toks) - 1] \notin {"<", ">"}
       THEN [c EXCEPT !.arg_variables = Append(@, "&")]
       ELSE c

ParseLine(toks, fo) == ParseTokens(toks, 1, ZeroCommand, fo)

(***************************************************************************)
(* What the shell writes to the terminal.                                  *)
(***************************************************************************)
Msg(m, pid, n) == [m |-> m, pid |-> pid, n |-> n]
Prompt == Msg("prompt", 0, 0)
BackgroundPidIs(p) == Msg("background pid is", p, 0)
EnterMsg == Msg("Entering foreground-only mode", 0, 0)
ExitMsg == Msg("Exiting foreground-only mode", 0, 0)

\* The text printed by the status built-in for a raw status word.
StatusText(s) ==
    IF WIFSIGNALED(s) THEN <<Msg("terminated by signal", 0, WTERMSIG(s))>>
    ELSE IF WIFEXITED(s) THEN <<Msg("exit value", 0, WEXITSTATUS(s))>>
    ELSE <<>>

\* Mutant: the report is printed without testing WIFSIGNALED.
ForegroundReport_Unconditional(s) ==
    <<Msg("terminated by signal", 0, WTERMSIG(s))>>

\* The immediate report of manage_child_process after the foreground wait.
ForegroundReport(s) ==
    IF WIFSIGNALED(s) THEN <<Msg("terminated by signal", 0, WTERMSIG(s))>>
    ELSE <<>>

\* The completion line background_tracker prints for a reaped child.
BackgroundDone(p, s) ==
    IF WIFEXITED(s) THEN <<Msg("background done: exit value", p, WEXITSTATUS(s))>>
    ELSE IF WIFSIGNALED(s) THEN <<Msg("background done: terminated by signal", p, WTERMSIG(s))>>
    ELSE <<>>

(***************************************************************************)
(* State.                                                                  *)
(***************************************************************************)
VARIABLES
    pc,               \* where the shell process is in main's loop
    current_command,  \* the struct command_line of this iteration
    latest_status,    \* global: raw status of the last foreground wait
    foreground_only,  \* global: 0 or 1, toggled by the SIGTSTP handler
    disposition,      \* the shell's signal dispositions, set by main
    spawnpid,         \* pid returned by the last successful fork
    children,         \* the kernel's view of every child, and its memory
    out,              \* what the shell has written to the terminal, in order,
                      \* since (and with) the last prompt
    nTstp,            \* runs of handle_signal_tstp in the shell so far
    lastFg,           \* history: outcome of the last foreground child waited for
    req,              \* history: the line read at the last prompt (it ends in
                      \* "&", that "&" follows "<" or ">", the flag when it was
                      \* parsed) and how it was launched
    heap,             \* the shell's struct command_line block: never allocated,
                      \* live, freed, or freed twice
    input_buffer,     \* parse_input taken alone: the line in the buffer
    parsed,           \* parse_input taken alone: the parses of that line so far
    scan,             \* parse_input's token loop on a line of any length
    fds               \* file_redirection taken alone: the openable files, the
                      \* streams of the shell and of the child, the file truncated

vars == <<pc, current_command, latest_status, foreground_only, disposition,
          spawnpid, children, out, nTstp, lastFg, req, heap,
          input_buffer, parsed, scan, fds>>

\* The variables of the specifications that take one function alone; the
\* session of the shell leaves them as they are.
FunctionVars == <<input_buffer, parsed, scan, fds>>

\* The heap block of the command: calloc in parse_input, free in
\* empty_heap_memory. Freeing a block that is not live is a double free.
Calloc == "live"
empty_heap_memory(h) == IF h = "live" THEN "freed" ELSE "double free"

NoLine == [kind |-> "blank", toks |-> <<>>]
NoScan == [pos |-> 0, arg_count |-> 0, null_at |-> 0, state |-> "idle"]
NoFds ==
    [inOK |-> TRUE, outOK |-> TRUE, nullOK |-> TRUE, state |-> "idle",
     shell |-> [stdin |-> "tty", stdout |-> "tty"],
     child |-> [stdin |-> "tty", stdout |-> "tty"],
     trunc |-> Null, err |-> "none"]

NoReq ==
    [amp |-> FALSE, path |-> FALSE, fo |-> 0, external |-> FALSE,
     launched |-> "none"]

Unborn ==
    [st |-> "unborn", cmd |-> ZeroCommand, bg |-> FALSE,
     sigint |-> "IGN", sigtstp |-> "IGN", stopped |-> FALSE,
     outcome |-> NoOutcome, err |-> "none",
     announced |-> 0, reported |-> 0]

LiveStates == {"forked", "sigint_set", "ready", "running"}
Live(p) == children[p].st \in LiveStates

\* A process that has ended: the kernel keeps its outcome until it is waited
\* for; its memory and dispositions are gone.
Ended(c, o, e) ==
    [Unborn EXCEPT !.st = "zombie", !.bg = c.bg, !.outcome = o, !.err = e,
                   !.announced = c.announced, !.reported = c.reported]
Reaped(c) == [Ended(c, NoOutcome, "none") EXCEPT !.st = "reaped"]
Born == {p \in Pids : children[p].st # "unborn"}
ShellAlive == pc \notin {"exited", "crashed", "killed"}

\* main, lines 56-68: the dispositions installed before the loop.
MainDispositions == [sigint |-> "IGN", sigtstp |-> "HANDLER"]

\* The shell process when main enters its loop.
Boot ==
    /\ pc = "track"
    /\ current_command = ZeroCommand
    /\ latest_status = 0
    /\ foreground_only = 0
    /\ disposition = MainDispositions
    /\ spawnpid = 0
    /\ children = [p \in Pids |-> Unborn]
    /\ out = <<>>
    /\ nTstp = 0
    /\ lastFg = NoOutcome
    /\ req = NoReq
    /\ heap = "none"

Init ==
    /\ Boot
    /\ input_buffer = NoLine
    /\ parsed = <<>>
    /\ scan = NoScan
    /\ fds = NoFds

(***************************************************************************)
(* background_tracker: one waitpid(-1, WNOHANG) per step.                  *)
(***************************************************************************)
Zombies == {p \in Pids : children[p].st = "zombie"}

\* Mutant: the tracker stores the reaped status in latest_status.
TrackerReap_SavesStatus ==
    /\ pc = "track"
    /\ \E p \in Zombies :
        LET child_status == WaitStatus(children[p].outcome) IN
        /\ children' = [children EXCEPT
                          ![p] = [Reaped(@) EXCEPT
                                    !.reported = @ + Len(BackgroundDone(p, child_status))]]
        /\ out' = out \o BackgroundDone(p, child_status)
        /\ latest_status' = child_status
    /\ UNCHANGED <<pc, current_command, foreground_only,
                   disposition, spawnpid, nTstp, lastFg, req>>
    /\ UNCHANGED <<heap, input_buffer, parsed, scan, fds>>

\* waitpid returned the pid of a finished child: report it, poll again.
TrackerReap ==
    /\ pc = "track"
    /\ \E p \in Zombies :
        LET child_status == WaitStatus(children[p].outcome) IN
        /\ children' = [children EXCEPT
                          ![p] = [Reaped(@) EXCEPT
                                    !.reported = @ + Len(BackgroundDone(p, child_status))]]
        /\ out' = out \o BackgroundDone(p, child_status)
    /\ UNCHANGED <<pc, current_command, latest_status, foreground_only,
                   disposition, spawnpid, nTstp, lastFg, req>>
    /\ UNCHANGED <<heap, input_buffer, parsed, scan, fds>>

\* Mutant: waitpid without WNOHANG returns only when there is no child left.
TrackerDone_Blocking ==
    /\ pc = "track"
    /\ Zombies = {}
    /\ \A p \in Pids : ~Live(p)
    /\ pc' = "prompt"
    /\ UNCHANGED <<current_command, latest_status, foreground_only, disposition,
                   spawnpid, children, out, nTstp, lastFg, req>>
    /\ UNCHANGED <<heap, input_buffer, parsed, scan, fds>>

\* Mutant: the tracker polls once (an if, not a while) and goes on even when
\* more finished children could be reaped.
TrackerDone_AfterOnePoll ==
    /\ pc = "track"
    /\ pc' = "prompt"
    /\ UNCHANGED <<current_command, latest_status, foreground_only, disposition,
                   spawnpid, children, out, nTstp, lastFg, req>>
    /\ UNCHANGED <<heap, input_buffer, parsed, scan, fds>>

\* waitpid returned 0 or -1: nothing to reap, the loop body goes on.
TrackerDone ==
    /\ pc = "track"
    /\ Zombies = {}
    /\ pc' = "prompt"
    /\ UNCHANGED <<current_command, latest_status, foreground_only, disposition,
                   spawnpid, children, out, nTstp, lastFg, req>>
    /\ UNCHANGED <<heap, input_buffer, parsed, scan, fds>>

(***************************************************************************)
(* parse_input.                                                            *)
(***************************************************************************)
\* printf(": "); fflush(stdout); then the process blocks in fgets.
PrintPrompt ==
    /\ pc = "prompt"
    /\ out' = <<Prompt>>
    /\ pc' = "read"
    /\ req' = NoReq
    /\ UNCHANGED <<current_command, latest_status, foreground_only, disposition,
                   spawnpid, children, nTstp, lastFg>>
    /\ UNCHANGED <<heap, input_buffer, parsed, scan, fds>>

\* The line ends in an "&" token; and that token directly follows a "<" or
\* ">" token.
EndsInAmp(toks) == Len(toks) >= 1 /\ toks[Len(toks)] = "&"
AmpAfterRedirect(toks) ==
    EndsInAmp(toks) /\ Len(toks) >= 2 /\ toks[Len(toks) - 1] \in {"<", ">"}

\* fgets returned a line; blank and comment lines give NULL, others are
\* tokenized. strdup(NULL) (a "<" or ">" with nothing after it) is undefined:
\* the process dies of SIGSEGV, or goes on with the field left null.
ReadLine ==
    /\ pc = "read"
    /\ \E line \in Lines :
        IF line.kind \in {"blank", "comment"}
        THEN /\ pc' = "track"
             /\ UNCHANGED <<current_command, req, heap>>
        ELSE LET c == ParseLine(line.toks, foreground_only) IN
             /\ heap' = Calloc
             /\ current_command' = [c EXCEPT !.ub = FALSE]
             /\ req' = [NoReq EXCEPT !.amp = EndsInAmp(line.toks),
                                      !.path = AmpAfterRedirect(line.toks),
                                      !.fo = foreground_only]
             /\ \/ pc' = "builtin"
                \/ c.ub /\ pc' = "crashed"
    /\ UNCHANGED <<latest_status, foreground_only, disposition, spawnpid,
                   children, out, nTstp, lastFg>>
    /\ UNCHANGED FunctionVars

(***************************************************************************)
(* built_in_commands.                                                      *)
(***************************************************************************)
Dirs == {"d"}

IsBuiltin(c) == arg_count(c) >= 1 /\ c.arg_variables[1] \in {"exit", "cd", "status"}

\* exit: empty_heap_memory, then exit(0).
BuiltinExit ==
    /\ pc = "builtin"
    /\ arg_count(current_command) >= 1
    /\ current_command.arg_variables[1] = "exit"
    /\ pc' = "exited"
    /\ current_command' = ZeroCommand
    /\ UNCHANGED <<latest_status, foreground_only, disposition, spawnpid,
                   children, out, nTstp, lastFg, req>>
    /\ heap' = empty_heap_memory(heap)
    /\ UNCHANGED FunctionVars

\* Mutant: a failing cd stores exit value 1 as the status.
BuiltinCd_SetsStatus ==
    /\ pc = "builtin"
    /\ arg_count(current_command) >= 1
    /\ current_command.arg_variables[1] = "cd"
    /\ IF arg_count(current_command) = 1
       THEN out' = out /\ latest_status' = latest_status
       ELSE LET path == current_command.arg_variables[2]
                result == IF path \in Dirs THEN 0 ELSE -1
            IN /\ out' = IF result = -1 THEN Append(out, Msg("cd: error", 0, 0)) ELSE out
               /\ latest_status' = IF result = -1 THEN WaitStatus(Exited(1))
                                    ELSE latest_status
    /\ pc' = "track"
    /\ current_command' = ZeroCommand
    /\ UNCHANGED <<foreground_only, disposition, spawnpid,
                   children, nTstp, lastFg, req>>
    /\ heap' = empty_heap_memory(heap)
    /\ UNCHANGED FunctionVars

\* cd: chdir($HOME) when alone (HOME may be unset), else chdir(argument),
\* with perror on failure. The working directory itself is not part of the
\* model: nothing else in the shell reads it.
BuiltinCd ==
    /\ pc = "builtin"
    /\ arg_count(current_command) >= 1
    /\ current_command.arg_variables[1] = "cd"
    /\ IF arg_count(current_command) = 1
       THEN out' = out
       ELSE LET path == current_command.arg_variables[2]
                result == IF path \in Dirs THEN 0 ELSE -1
            IN out' = IF result = -1 THEN Append(out, Msg("cd: error", 0, 0)) ELSE out
    /\ pc' = "track"
    /\ current_command' = ZeroCommand
    /\ UNCHANGED <<latest_status, foreground_only, disposition, spawnpid,
                   children, nTstp, lastFg, req>>
    /\ heap' = empty_heap_memory(heap)
    /\ UNCHANGED FunctionVars

\* status: print the decoded latest_status.
BuiltinStatus ==
    /\ pc = "builtin"
    /\ arg_count(current_command) >= 1
    /\ current_command.arg_variables[1] = "status"
    /\ out' = out \o StatusText(latest_status)
    /\ pc' = "track"
    /\ current_command' = ZeroCommand
    /\ UNCHANGED <<latest_status, foreground_only, disposition, spawnpid,
                   children, nTstp, lastFg, req>>
    /\ heap' = empty_heap_memory(heap)
    /\ UNCHANGED FunctionVars

\* Not a built-in: return -1, main calls exec_commands. With no argument at
\* all, strcmp(NULL, "exit") is undefined: SIGSEGV, or no match.
BuiltinNone ==
    /\ pc = "builtin"
    /\ ~IsBuiltin(current_command)
    /\ \/ pc' = "fork" /\ req' = [req EXCEPT !.external = TRUE]
       \/ arg_count(current_command) = 0 /\ pc' = "crashed" /\ req' = req
    /\ UNCHANGED <<current_command, latest_status, foreground_only, disposition,
                   spawnpid, children, out, nTstp, lastFg>>
    /\ UNCHANGED <<heap, input_buffer, parsed, scan, fds>>

(***************************************************************************)
(* exec_commands, parent side, and manage_child_process.                   *)
(***************************************************************************)
NextPid == Cardinality(Born) + 1

\* Mutant: a failed fork is recorded as exit value 1, like a failed exec.
ForkFail_SetsStatus ==
    /\ pc = "fork"
    /\ out' = Append(out, Msg("fork: error", 0, 0))
    /\ pc' = "track"
    /\ current_command' = ZeroCommand
    /\ req' = [req EXCEPT !.launched = "forkfail"]
    /\ latest_status' = WaitStatus(Exited(1))
    /\ UNCHANGED <<foreground_only, disposition, spawnpid,
                   children, nTstp, lastFg>>
    /\ UNCHANGED <<heap, input_buffer, parsed, scan, fds>>

\* fork() returned -1: perror, return 1 (the command is not released).
ForkFail ==
    /\ pc = "fork"
    /\ out' = Append(out, Msg("fork: error", 0, 0))
    /\ pc' = "track"
    /\ current_command' = ZeroCommand
    /\ req' = [req EXCEPT !.launched = "forkfail"]
    /\ UNCHANGED <<latest_status, foreground_only, disposition, spawnpid,
                   children, nTstp, lastFg>>
    /\ UNCHANGED <<heap, input_buffer, parsed, scan, fds>>

\* The child right after fork: a copy of the parent's memory and of its
\* signal dispositions.
ForkedChild ==
    [Unborn EXCEPT !.st = "forked",
                   !.cmd = current_command,
                   !.bg = current_command.is_background,
                   !.sigint = disposition.sigint,
                   !.sigtstp = disposition.sigtstp]

\* fork() returned the child's pid to the parent.
ForkOk ==
    /\ pc = "fork"
    /\ NextPid \in Pids
    /\ spawnpid' = NextPid
    /\ children' = [children EXCEPT ![NextPid] = ForkedChild]
    /\ pc' = "manage"
    /\ UNCHANGED <<current_command, latest_status, foreground_only, disposition,
                   out, nTstp, lastFg, req>>
    /\ UNCHANGED <<heap, input_buffer, parsed, scan, fds>>

\* Mutant: the background branch returns without printing the pid.
ManageBackground_Silent ==
    /\ pc = "manage"
    /\ current_command.is_background
    /\ pc' = "track"
    /\ current_command' = ZeroCommand
    /\ req' = [req EXCEPT !.launched = "bg"]
    /\ UNCHANGED <<latest_status, foreground_only, disposition, spawnpid,
                   children, out, nTstp, lastFg>>
    /\ heap' = empty_heap_memory(heap)
    /\ UNCHANGED FunctionVars

\* manage_child_process, background branch: print the pid and return;
\* exec_commands then releases the command.
ManageBackground ==
    /\ pc = "manage"
    /\ current_command.is_background
    /\ out' = Append(out, BackgroundPidIs(spawnpid))
    /\ children' = [children EXCEPT ![spawnpid].announced = @ + 1]
    /\ pc' = "track"
    /\ current_command' = ZeroCommand
    /\ req' = [req EXCEPT !.launched = "bg"]
    /\ UNCHANGED <<latest_status, foreground_only, disposition, spawnpid,
                   nTstp, lastFg>>
    /\ heap' = empty_heap_memory(heap)
    /\ UNCHANGED FunctionVars

\* Mutant: before blocking, the foreground branch polls for finished children
\* and reports one as background_tracker does.
ManageForeground_Polls ==
    /\ pc = "manage"
    /\ ~current_command.is_background
    /\ pc' = "wait"
    /\ IF Zombies \ {spawnpid} = {}
       THEN UNCHANGED <<children, out>>
       ELSE \E p \in Zombies \ {spawnpid} :
              LET child_status == WaitStatus(children[p].outcome) IN
              /\ children' = [children EXCEPT
                                ![p] = [Reaped(@) EXCEPT
                                          !.reported = @ + Len(BackgroundDone(p, child_status))]]
              /\ out' = out \o BackgroundDone(p, child_status)
    /\ UNCHANGED <<current_command, latest_status, foreground_only, disposition,
                   spawnpid, nTstp, lastFg, req>>
    /\ UNCHANGED <<heap, input_buffer, parsed, scan, fds>>

\* manage_child_process, foreground branch: enter waitpid(spawnpid, .., 0).
ManageForeground ==
    /\ pc = "manage"
    /\ ~current_command.is_background
    /\ pc' = "wait"
    /\ UNCHANGED <<current_command, latest_status, foreground_only, disposition,
                   spawnpid, children, out, nTstp, lastFg, req>>
    /\ UNCHANGED <<heap, input_buffer, parsed, scan, fds>>

\* waitpid(spawnpid, &child_status, 0) returns once that child has ended:
\* the status is saved, a signal death is reported, the command released.
WaitForeground ==
    /\ pc = "wait"
    /\ children[spawnpid].st = "zombie"
    /\ LET child_status == WaitStatus(children[spawnpid].outcome) IN
        /\ latest_status' = child_status
        /\ out' = out \o ForegroundReport(child_status)
    /\ lastFg' = children[spawnpid].outcome
    /\ children' = [children EXCEPT ![spawnpid] = Reaped(@)]
    /\ pc' = "track"
    /\ current_command' = ZeroCommand
    /\ req' = [req EXCEPT !.launched = "fg"]
    /\ UNCHANGED <<foreground_only, disposition, spawnpid, nTstp>>
    /\ heap' = empty_heap_memory(heap)
    /\ UNCHANGED FunctionVars

\* Mutant: the branch that leaves the mode does not clear the flag.
HandleSignalTstp_NeverClears ==
    /\ ShellAlive
    /\ disposition.sigtstp = "HANDLER"
    /\ nTstp < MaxTstp
    /\ nTstp' = nTstp + 1
    /\ IF foreground_only = 0
       THEN /\ foreground_only' = 1
            /\ out' = Append(out, EnterMsg)
       ELSE /\ foreground_only' = foreground_only
            /\ out' = Append(out, ExitMsg)
    /\ UNCHANGED <<pc, current_command, latest_status, disposition, spawnpid,
                   children, lastFg, req>>
    /\ UNCHANGED <<heap, input_buffer, parsed, scan, fds>>

(***************************************************************************)
(* handle_signal_tstp, run in the shell process. The handler may run       *)
(* between any two steps of the loop (SA_RESTART resumes fgets / waitpid). *)
(***************************************************************************)
HandleSignalTstp ==
    /\ ShellAlive
    /\ disposition.sigtstp = "HANDLER"
    /\ nTstp < MaxTstp
    /\ nTstp' = nTstp + 1
    /\ IF foreground_only = 0
       THEN /\ foreground_only' = 1
            /\ out' = Append(out, EnterMsg)
       ELSE /\ foreground_only' = 0
            /\ out' = Append(out, ExitMsg)
    /\ UNCHANGED <<pc, current_command, latest_status, disposition, spawnpid,
                   children, lastFg, req>>
    /\ UNCHANGED <<heap, input_buffer, parsed, scan, fds>>

\* SIGINT delivered to the shell process: ignored, or (default action) fatal.
SigintShell ==
    /\ ShellAlive
    /\ pc' = IF disposition.sigint = "IGN" THEN pc ELSE "killed"
    /\ UNCHANGED <<current_command, latest_status, foreground_only, disposition,
                   spawnpid, children, out, nTstp, lastFg, req>>
    /\ UNCHANGED <<heap, input_buffer, parsed, scan, fds>>

(***************************************************************************)
(* exec_commands, child side (case 0), and the life of a child.            *)
(***************************************************************************)
ChildVars == <<pc, current_command, latest_status, foreground_only, disposition,
               spawnpid, out, nTstp, lastFg, req, heap,
               input_buffer, parsed, scan, fds>>

\* Mutant: every child restores the default action for SIGINT.
ChildSigactionInt_AlwaysDefault(p) ==
    /\ children[p].st = "forked"
    /\ children' = [children EXCEPT ![p].sigint = "DFL", ![p].st = "sigint_set"]
    /\ UNCHANGED ChildVars

\* sigaction(SIGINT, ..): SIG_IGN for a background command, else SIG_DFL.
ChildSigactionInt(p) ==
    /\ children[p].st = "forked"
    /\ children' = [children EXCEPT
                      ![p].sigint = IF children[p].cmd.is_background
                                    THEN "IGN" ELSE "DFL",
                      ![p].st = "sigint_set"]
    /\ UNCHANGED ChildVars

\* sigaction(SIGTSTP, ..): always SIG_IGN.
ChildSigactionTstp(p) ==
    /\ children[p].st = "sigint_set"
    /\ children' = [children EXCEPT ![p].sigtstp = "IGN", ![p].st = "ready"]
    /\ UNCHANGED ChildVars

\* Mutant: the background test comes first on each side, so a background
\* command gets /dev/null even where a path is given.
FileRedirection_BackgroundFirst(c, inOK, outOK, nullOK) ==
    LET inFail == IF c.is_background THEN ~nullOK
                  ELSE c.input_file # Null /\ ~inOK
        outFail == IF c.is_background THEN ~nullOK
                   ELSE c.output_file # Null /\ ~outOK
        newin == IF c.is_background THEN "/dev/null"
                 ELSE IF c.input_file # Null THEN c.input_file ELSE "tty"
        newout == IF c.is_background THEN "/dev/null"
                  ELSE IF c.output_file # Null THEN c.output_file ELSE "tty"
    IN IF inFail
       THEN [exit |-> TRUE, stdin |-> "tty", stdout |-> "tty", trunc |-> Null,
             err |-> IF c.is_background THEN "open error"
                     ELSE "cannot open for input"]
       ELSE IF outFail
       THEN [exit |-> TRUE, stdin |-> newin, stdout |-> "tty", trunc |-> Null,
             err |-> IF c.is_background THEN "open error"
                     ELSE "cannot open for output"]
       ELSE [exit |-> FALSE, stdin |-> newin, stdout |-> newout,
             trunc |-> IF c.is_background THEN Null ELSE c.output_file,
             err |-> "none"]

\* Mutant: the output side is handled before the input side.
FileRedirection_OutputFirst(c, inOK, outOK, nullOK) ==
    LET inFail == IF c.input_file # Null THEN ~inOK
                  ELSE c.is_background /\ ~nullOK
        outFail == IF c.output_file # Null THEN ~outOK
                   ELSE c.is_background /\ ~nullOK
        newin == IF c.input_file # Null THEN c.input_file
                 ELSE IF c.is_background THEN "/dev/null" ELSE "tty"
        newout == IF c.output_file # Null THEN c.output_file
                  ELSE IF c.is_background THEN "/dev/null" ELSE "tty"
    IN IF outFail
       THEN [exit |-> TRUE, stdin |-> "tty", stdout |-> "tty", trunc |-> Null,
             err |-> IF c.output_file # Null THEN "cannot open for output"
                     ELSE "open error"]
       ELSE IF inFail
       THEN [exit |-> TRUE, stdin |-> "tty", stdout |-> newout,
             trunc |-> c.output_file,
             err |-> IF c.input_file # Null THEN "cannot open for input"
                     ELSE "open error"]
       ELSE [exit |-> FALSE, stdin |-> newin, stdout |-> newout,
             trunc |-> c.output_file, err |-> "none"]

\* file_redirection: the streams a command gets, or the reason it exits.
\* inOK / outOK: the named file can be opened; nullOK: /dev/null can.
FileRedirection(c, inOK, outOK, nullOK) ==
    LET inFail == IF c.input_file # Null THEN ~inOK
                  ELSE c.is_background /\ ~nullOK
        outFail == IF c.output_file # Null THEN ~outOK
                   ELSE c.is_background /\ ~nullOK
        newin == IF c.input_file # Null THEN c.input_file
                 ELSE IF c.is_background THEN "/dev/null" ELSE "tty"
        newout == IF c.output_file # Null THEN c.output_file
                  ELSE IF c.is_background THEN "/dev/null" ELSE "tty"
    IN IF inFail
       THEN [exit |-> TRUE, stdin |-> "tty", stdout |-> "tty", trunc |-> Null,
             err |-> IF c.input_file # Null THEN "cannot open for input"
                     ELSE "open error"]
       ELSE IF outFail
       THEN [exit |-> TRUE, stdin |-> newin, stdout |-> "tty", trunc |-> Null,
             err |-> IF c.output_file # Null THEN "cannot open for output"
                     ELSE "open error"]
       ELSE [exit |-> FALSE, stdin |-> newin, stdout |-> newout,
             trunc |-> c.output_file, err |-> "none"]

\* Dispositions across execvp: ignored stays ignored, a handler becomes default.
AfterExec(d) == IF d = "HANDLER" THEN "DFL" ELSE d

\* Mutant: a failed execvp ends the child with errno (ENOENT = 2) as its code.
ChildRedirectExec_ExitsErrno(p) ==
    /\ children[p].st = "ready"
    /\ \E inOK \in BOOLEAN, outOK \in BOOLEAN, nullOK \in BOOLEAN, execOK \in BOOLEAN :
        LET r == FileRedirection(children[p].cmd, inOK, outOK, nullOK)
        IN children' = [children EXCEPT ![p] =
             IF r.exit
             THEN Ended(@, Exited(1), r.err)
             ELSE IF ~execOK \/ arg_count(children[p].cmd) = 0
             THEN Ended(@, Exited(2), "no such file or directory")
             ELSE [@ EXCEPT !.st = "running", !.cmd = ZeroCommand,
                            !.sigint = AfterExec(@), !.sigtstp = AfterExec(@)]]
    /\ UNCHANGED ChildVars

\* file_redirection, then execvp; failure of either ends in exit(1).
ChildRedirectExec(p) ==
    /\ children[p].st = "ready"
    /\ \E inOK \in BOOLEAN, outOK \in BOOLEAN, nullOK \in BOOLEAN, execOK \in BOOLEAN :
        LET r == FileRedirection(children[p].cmd, inOK, outOK, nullOK)
        IN children' = [children EXCEPT ![p] =
             IF r.exit
             THEN Ended(@, Exited(1), r.err)
             ELSE IF ~execOK \/ arg_count(children[p].cmd) = 0
             THEN Ended(@, Exited(1), "no such file or directory")
             ELSE [@ EXCEPT !.st = "running", !.cmd = ZeroCommand,
                            !.sigint = AfterExec(@), !.sigtstp = AfterExec(@)]]
    /\ UNCHANGED ChildVars

\* The external program ends by itself.
ChildExit(p) ==
    /\ children[p].st = "running"
    /\ ~children[p].stopped
    /\ \E n \in ExitCodes :
        children' = [children EXCEPT ![p] = Ended(@, Exited(n), "none")]
    /\ UNCHANGED ChildVars

\* SIGINT delivered to a child: nothing if ignored, death by default.
SigintChild(p) ==
    /\ Live(p)
    /\ children' = [children EXCEPT ![p] =
         IF children[p].sigint = "IGN" THEN @
         ELSE Ended(@, Signaled(SIGINT, FALSE), "none")]
    /\ UNCHANGED ChildVars

\* SIGTSTP delivered to a child: nothing if ignored; the inherited handler
\* toggles the child's own copy of foreground_only, which the child never
\* reads again; the default action stops the process.
SigtstpChild(p) ==
    /\ Live(p)
    /\ children' = [children EXCEPT ![p] =
         IF children[p].sigtstp = "IGN" THEN @
         ELSE IF children[p].sigtstp = "HANDLER" THEN @
         ELSE [@ EXCEPT !.stopped = TRUE]]
    /\ UNCHANGED ChildVars

\* A signal the children leave at its default action, sent from outside:
\* SIGSEGV, which ends the process with a core dump.
FatalOutcomes == {Signaled(SIGSEGV, TRUE)}

KillChild(p) ==
    /\ Live(p)
    /\ \E o \in FatalOutcomes :
        children' = [children EXCEPT ![p] = Ended(@, o, "none")]
    /\ UNCHANGED ChildVars

(***************************************************************************)
(* The specification.                                                      *)
(***************************************************************************)
ShellStep ==
    \/ TrackerReap
    \/ TrackerDone
    \/ PrintPrompt
    \/ ReadLine
    \/ BuiltinExit
    \/ BuiltinCd
    \/ BuiltinStatus
    \/ BuiltinNone
    \/ ForkFail
    \/ ForkOk
    \/ ManageBackground
    \/ ManageForeground
    \/ WaitForeground

SignalStep ==
    \/ HandleSignalTstp
    \/ SigintShell
    \/ \E p \in Pids : SigintChild(p)
    \/ \E p \in Pids : SigtstpChild(p)
    \/ \E p \in Pids : KillChild(p)

ChildStep ==
    \/ \E p \in Pids : ChildSigactionInt(p)
    \/ \E p \in Pids : ChildSigactionTstp(p)
    \/ \E p \in Pids : ChildRedirectExec(p)
    \/ \E p \in Pids : ChildExit(p)

Next == ShellStep \/ SignalStep \/ ChildStep

Spec == Init /\ [][Next]_vars

(***************************************************************************)
(* Properties.                                                             *)
(***************************************************************************)
\* The shell is at the step of built_in_commands that runs this built-in.
AtBuiltin(name) ==
    /\ pc = "builtin"
    /\ arg_count(current_command) >= 1
    /\ current_command.arg_variables[1] = name

LastOut == IF out = <<>> THEN Msg("", 0, 0) ELSE out[Len(out)]
Printed(m) == \E i \in DOMAIN out : out[i] = m

\* A step of the shell that runs the status built-in.
StatusStep == AtBuiltin("status") /\ pc' = "track"

\* A step in which a background child is launched, changes or is reaped.
BackgroundStep ==
    \/ pc = "track"
    \/ pc = "manage" /\ current_command.is_background
    \/ \E p \in Pids : children[p].bg /\ children'[p] # children[p]

\* C1: status reports the outcome of the most recently completed foreground
\* command: "exit value 0" while no foreground child has been waited for, and
\* "exit value N" after the last foreground child waited for exited with N.
\* No background launch, background completion or reaping by
\* background_tracker changes the stored status.
C1_StatusReportsLastForeground ==
    [][ /\ (StatusStep /\ lastFg.how = "none")
            => out' = Append(out, Msg("exit value", 0, 0))
        /\ (StatusStep /\ lastFg.how = "exit")
            => out' = Append(out, Msg("exit value", 0, lastFg.n))
        /\ BackgroundStep
            => /\ latest_status' = latest_status
               /\ StatusText(latest_status') = StatusText(latest_status)
      ]_vars

\* status has just printed a non-zero exit value of a foreground command,
\* after a background child finished and was reaped in between.
C1_Witness ==
    /\ pc = "track"
    /\ lastFg = Exited(1)
    /\ LastOut = Msg("exit value", 0, 1)
    /\ \E p \in Pids : children[p].bg /\ children[p].st = "reaped"
                       /\ p < spawnpid

\* C2: no built-in (exit, cd with or without an argument, succeeding or
\* failing, status) modifies latest_status, so status prints the same text
\* after the built-in as before it.
C2_BuiltinsKeepStatus ==
    [][ (pc = "builtin" /\ IsBuiltin(current_command))
            => /\ latest_status' = latest_status
               /\ StatusText(latest_status') = StatusText(latest_status)
      ]_vars

\* A failing cd has just run while the stored status is a non-zero exit value.
C2_Witness ==
    /\ pc = "track"
    /\ LastOut = Msg("cd: error", 0, 0)
    /\ latest_status = WaitStatus(Exited(1))

\* The step in which the blocking wait of manage_child_process returns.
WaitReturns == pc = "wait" /\ pc' = "track"

\* The shell has finished dispatching the line read at the last prompt and
\* has not yet printed the next prompt.
BeforeNextPrompt == pc \in {"track", "prompt"}

\* C3: when the foreground child was terminated by signal S, the shell
\* prints "terminated by signal S" when the wait returns, so before the next
\* prompt, and status reports "terminated by signal S" from then until another
\* foreground command completes; a foreground child that exits normally
\* produces no immediate message.
C3_ForegroundSignalReported ==
    /\ [][ /\ (WaitReturns /\ lastFg'.how = "signal")
               => out' = Append(out, Msg("terminated by signal", 0, lastFg'.n))
           /\ (WaitReturns /\ lastFg'.how = "exit") => out' = out
           /\ (StatusStep /\ lastFg.how = "signal")
               => out' = Append(out, Msg("terminated by signal", 0, lastFg.n))
         ]_vars
    /\ [](BeforeNextPrompt /\ req.launched = "fg" /\ lastFg.how = "signal"
            => Printed(Msg("terminated by signal", 0, lastFg.n)))

\* status has just reported the signal (with a core dump) that ended the
\* last foreground command.
C3_Witness ==
    /\ pc = "track"
    /\ lastFg = Signaled(SIGSEGV, TRUE)
    /\ req.launched = "none"
    /\ LastOut = Msg("terminated by signal", 0, SIGSEGV)

\* What C4 says of a line ending in "&" that was launched: in foreground
\* when the flag was on at the parse (no "background pid is" line, the shell
\* has waited for the child, its outcome is the stored status), in
\* background when the flag was off.
AmpLaunch ==
    IF req.fo = 1
    THEN /\ req.launched = "fg"
         /\ ~Printed(BackgroundPidIs(spawnpid))
         /\ children[spawnpid].st = "reaped"
         /\ children[spawnpid].announced = 0
         /\ latest_status = WaitStatus(lastFg)
    ELSE /\ req.launched = "bg"
         /\ Printed(BackgroundPidIs(spawnpid))
         /\ children[spawnpid].bg

AmpLineLaunched ==
    BeforeNextPrompt /\ req.external /\ req.amp /\ req.launched \in {"fg", "bg"}

IsTstpMsg(m) == m \in {EnterMsg, ExitMsg}
TstpMsgs == SelectSeq(out, IsTstpMsg)

\* C5: every run of the SIGTSTP handler flips foreground_only and writes the
\* message of the new state; after n runs the flag is on iff n is odd, and
\* successive runs write entering and exiting messages alternately.
C5_TstpToggles ==
    /\ [][ nTstp' # nTstp
            => /\ foreground_only' = 1 - foreground_only
               /\ out' = Append(out, IF foreground_only' = 1 THEN EnterMsg
                                     ELSE ExitMsg) ]_vars
    /\ [](foreground_only = nTstp % 2)
    /\ [](\A i \in 1..(Len(TstpMsgs) - 1) : TstpMsgs[i] # TstpMsgs[i + 1])

\* Two runs of the handler from the initial state: the flag is off again and
\* the entering message was written before the exiting message.
C5_Witness ==
    /\ nTstp = 2
    /\ foreground_only = 0
    /\ TstpMsgs = <<EnterMsg, ExitMsg>>

\* C6: when the exit built-in has ended the shell (with status 0), no child
\* the shell spawned is still running: each was sent a termination signal
\* before the shell terminated.
C6_ExitTerminatesChildren ==
    pc = "exited" => \A p \in Pids : ~Live(p)

\* C7: for a command launched in background the shell prints "background pid
\* is <pid>" before the next prompt and goes back to the loop without waiting
\* for the child; the launch leaves latest_status as it was.
C7_BackgroundLaunchReturns ==
    /\ [][ (pc = "manage" /\ current_command.is_background /\ pc' # pc)
            => /\ out' = Append(out, BackgroundPidIs(spawnpid))
               /\ pc' = "track"
               /\ children'[spawnpid].st = children[spawnpid].st
               /\ latest_status' = latest_status ]_vars
    /\ [](BeforeNextPrompt /\ req.launched = "bg"
            => /\ Printed(BackgroundPidIs(spawnpid))
               /\ children[spawnpid].announced = 1)
    /\ [](\A p \in Pids :
            (children[p].bg /\ children[p].st # "unborn" /\ pc = "read")
                => children[p].announced = 1)

\* The shell is back at the prompt, waiting for a line, while the background
\* child it announced is still running.
C7_Witness ==
    /\ pc = "read"
    /\ \E p \in Pids : /\ children[p].bg
                       /\ children[p].st = "running"
                       /\ children[p].announced = 1

\* C8: SIGINT ends only children launched as foreground: the shell is never
\* killed by it, and a child launched as background ignores it at every point
\* of its life, so never dies of it. Once a child has set its dispositions
\* it ignores SIGTSTP: it is never stopped, and a SIGTSTP changes nothing in it.
C8_SignalImmunity ==
    /\ [](pc # "killed" /\ disposition.sigint = "IGN")
    /\ [](\A p \in Pids :
            /\ (children[p].bg /\ Live(p)) => children[p].sigint = "IGN"
            /\ children[p].bg => children[p].outcome # Signaled(SIGINT, FALSE)
            /\ children[p].st \in {"ready", "running"}
                 => children[p].sigtstp = "IGN"
            /\ ~children[p].stopped)

\* A foreground child has died of SIGINT while a background child, started
\* before it, is still running.
C8_Witness ==
    \E p, q \in Pids :
        /\ children[p].outcome = Signaled(SIGINT, FALSE)
        /\ ~children[p].bg
        /\ children[q].bg /\ children[q].st = "running"

(***************************************************************************)
(* The shell process keeps running: a poll of background_tracker, the      *)
(* printing of the prompt and the return of a wait whose child has ended   *)
(* are steps of a scheduled process and are eventually taken. Nothing is   *)
(* assumed of the user (ReadLine), of the children or of the signals.      *)
(***************************************************************************)
LiveSpec ==
    /\ Spec
    /\ WF_vars(TrackerReap \/ TrackerDone)
    /\ WF_vars(PrintPrompt)
    /\ WF_vars(WaitForeground)

\* Child p fails in its set-up (redirection or execvp) in this step.
SetupFails(p) == children[p].err = "none" /\ children'[p].err # "none"

\* background_tracker reaps child p in this step.
Reaps(p) ==
    pc = "track" /\ children[p].st = "zombie" /\ children'[p].st = "reaped"

DoneLine(p, o) ==
    IF o.how = "exit" THEN Msg("background done: exit value", p, o.n)
    ELSE Msg("background done: terminated by signal", p, o.n)

\* C10: background_tracker never blocks and always terminates. Each poll
\* either reaps one finished child and prints exactly one completion line
\* for it (exit value N, or terminated by signal N), leaving every other
\* child untouched, or finds no finished child, prints nothing and ends the
\* tracker; the tracker ends only when no child is reapable.
C10_TrackerPollsWithoutBlocking ==
    /\ [](pc = "track" => ENABLED (TrackerReap \/ TrackerDone))
    /\ [][ /\ \A p \in Pids : Reaps(p)
                => /\ out' = Append(out, DoneLine(p, children[p].outcome))
                   /\ children'[p].reported = children[p].reported + 1
                   /\ \A q \in Pids \ {p} : children'[q] = children[q]
                   /\ pc' = "track"
           /\ (pc = "track" /\ pc' # "track")
                => /\ pc' = "prompt"
                   /\ Zombies = {}
                   /\ out' = out
                   /\ children' = children
           /\ (pc = "track" /\ out' # out /\ nTstp' = nTstp)
                => \E p \in Pids : Reaps(p)
         ]_vars
    /\ (pc = "track") ~> (pc = "prompt")

\* The tracker has reaped two children in one run, one that exited and one
\* killed by a signal, while the shell's loop went on to the prompt.
C10_Witness ==
    /\ pc = "prompt"
    /\ Len(out) >= 2
    /\ out[Len(out) - 1].m = "background done: terminated by signal"
    /\ out[Len(out)].m = "background done: exit value"

\* A completion line of background_tracker.
IsDoneMsg(m) ==
    m.m \in {"background done: exit value", "background done: terminated by signal"}

\* Completion lines on the terminal since the last prompt; completion lines
\* printed so far for all children.
DoneMsgs == SelectSeq(out, IsDoneMsg)
RECURSIVE SumReported(_)
SumReported(S) ==
    IF S = {} THEN 0
    ELSE LET p == CHOOSE q \in S : TRUE
         IN children[p].reported + SumReported(S \ {p})

\* The shell is between the printing of the prompt and the end of the
\* dispatch of the line read there (the blocking foreground wait included).
InDispatch == pc \in {"read", "builtin", "fork", "manage", "wait"}

\* C11: a completion line "background pid <pid> is done: ..." is printed only
\* by a step of background_tracker at the top of the loop: never between the
\* prompt and the end of the dispatch of the line read, never while the shell
\* is blocked in the foreground wait. So from the prompt to the end of the
\* dispatch the terminal shows no completion line after the prompt.
C11_DoneOnlyAtLoopTop ==
    /\ [][ (Len(DoneMsgs') > Len(DoneMsgs) \/ SumReported(Pids)' > SumReported(Pids))
            => (pc = "track" /\ pc' = "track") ]_vars
    /\ [](InDispatch => DoneMsgs = <<>>)
    /\ [](pc = "wait" => \A p \in Zombies \ {spawnpid} : children[p].reported = 0)

\* A background child ended while the shell was busy with a foreground
\* command that a signal killed: its completion line comes after the report
\* of the foreground command, at the loop top.
C11_Witness ==
    /\ pc = "track"
    /\ req.launched = "fg"
    /\ Len(out) >= 3
    /\ out[Len(out) - 1].m = "terminated by signal"
    /\ IsDoneMsg(out[Len(out)])

(***************************************************************************)
(* parse_input taken alone: one well-formed line is parsed several times,  *)
(* while SIGTSTP toggles foreground_only between the parses.               *)
(***************************************************************************)
ShellVars == <<pc, current_command, latest_status, foreground_only, disposition,
               spawnpid, children, out, nTstp, lastFg, req, heap>>

ParseLines == {[kind |-> "text", toks |-> t] : t \in WellFormedLines}

ParseInit ==
    /\ Boot
    /\ input_buffer \in ParseLines
    /\ parsed = <<>>
    /\ scan = NoScan
    /\ fds = NoFds

\* One call of parse_input on the text in the buffer: the Command it returns,
\* with the value foreground_only had.
ParseInput ==
    /\ Len(parsed) < MaxParses
    /\ parsed' = Append(parsed,
                        [fo |-> foreground_only,
                         cmd |-> ParseLine(input_buffer.toks, foreground_only)])
    /\ UNCHANGED <<ShellVars, input_buffer, scan, fds>>

ParseNext == ParseInput \/ HandleSignalTstp

ParseSpec == ParseInit /\ [][ParseNext]_vars

\* C12, as stated: two parses of the same text yield the same Command,
\* whatever the state of the shell at each parse.
C12_ParseOfTextAlone ==
    \A i, j \in DOMAIN parsed : parsed[i].cmd = parsed[j].cmd

\* C12, amended: two parses of the same well-formed text yield the same
\* argument sequence, input path and output path whatever the state of the
\* shell, and the same background flag when foreground_only has the same
\* value at both parses; the flag is set exactly when the line ends in "&"
\* and foreground_only is 0 at the parse.
C12_ParseOfTextAndMode ==
    \A i, j \in DOMAIN parsed :
        /\ parsed[i].cmd.arg_variables = parsed[j].cmd.arg_variables
        /\ parsed[i].cmd.input_file = parsed[j].cmd.input_file
        /\ parsed[i].cmd.output_file = parsed[j].cmd.output_file
        /\ parsed[i].fo = parsed[j].fo => parsed[i].cmd = parsed[j].cmd
        /\ parsed[i].cmd.is_background
             = (EndsInAmp(input_buffer.toks) /\ parsed[i].fo = 0)
        /\ ~parsed[i].cmd.ub

\* A line with an argument, both redirections and "&" has been parsed with
\* the mode off and again with the mode on: only the background flag differs.
C12_Witness ==
    /\ Len(parsed) = 2
    /\ input_buffer.toks = <<"ls", "d", "<", "d", ">", "d", "&">>
    /\ parsed[1].fo = 0 /\ parsed[2].fo = 1
    /\ parsed[1].cmd.is_background /\ ~parsed[2].cmd.is_background
    /\ parsed[1].cmd.arg_variables = <<"ls", "d">>
    /\ parsed[2].cmd = [parsed[1].cmd EXCEPT !.is_background = FALSE]

\* The step of manage_child_process that prints "background pid is <pid>".
PrintsBackgroundPid ==
    /\ pc = "manage"
    /\ out' = Append(out, BackgroundPidIs(spawnpid))

\* C13: whatever the interleaving of the SIGTSTP handler with the main loop,
\* no command is launched as a background job while foreground-only mode is
\* on: whenever "background pid is <pid>" is printed, foreground_only is 0.
C13_NoBackgroundLaunchInMode ==
    [][ PrintsBackgroundPid => (foreground_only = 0 /\ foreground_only' = 0) ]_vars

\* Child p was launched as a background command and has ended, and the kernel
\* still holds its outcome.
BackgroundZombie(p) == children[p].bg /\ children[p].st = "zombie"

\* C14: every child launched as background that has ended is reported by
\* exactly one completion line, printed after its "background pid is <pid>"
\* line by the first run of background_tracker that follows its end (the
\* tracker does not go on to the prompt while a finished child is unreaped,
\* and a finished background child found at the loop top is eventually
\* reported). A child launched as foreground is reaped by the blocking wait
\* on its own pid and is never reported by background_tracker.
C14_BackgroundReportedOnce ==
    /\ [](\A p \in Pids :
            /\ children[p].reported <= 1
            /\ children[p].announced <= 1
            /\ children[p].reported = 1
                 => /\ children[p].bg
                    /\ children[p].announced = 1
                    /\ children[p].st = "reaped"
            /\ (children[p].bg /\ children[p].st = "reaped")
                 => children[p].reported = 1
            /\ ~children[p].bg => children[p].reported = 0)
    /\ [][ /\ \A p \in Pids : Reaps(p) => children[p].bg
           /\ (pc = "track" /\ pc' = "prompt")
                => \A p \in Pids : ~BackgroundZombie(p)
           /\ WaitReturns
                => /\ ~children[spawnpid].bg
                   /\ children[spawnpid].st = "zombie"
                   /\ children'[spawnpid].st = "reaped"
                   /\ \A q \in Pids \ {spawnpid} : children'[q] = children[q]
           /\ \A p \in Pids :
                (~children[p].bg /\ children[p].st = "zombie"
                    /\ children'[p].st = "reaped")
                    => (pc = "wait" /\ spawnpid = p)
         ]_vars
    /\ \A p \in Pids :
          (pc = "track" /\ BackgroundZombie(p))
              ~> (children[p].st = "reaped" /\ children[p].reported = 1)

\* The tracker has finished: a background child that ended has been reported
\* once, after a foreground child, launched after it, was reaped by its wait
\* unreported.
C14_Witness ==
    /\ pc = "prompt"
    /\ \E p, q \in Pids :
        /\ p < q
        /\ children[p].bg /\ children[p].st = "reaped"
        /\ children[p].announced = 1 /\ children[p].reported = 1
        /\ ~children[q].bg /\ children[q].st = "reaped"
        /\ children[q].reported = 0
    /\ Len(DoneMsgs) = 1

(***************************************************************************)
(* file_redirection taken alone: a forked child calls it with the command  *)
(* it inherited; each open may succeed or fail.                            *)
(***************************************************************************)
RedirCommands ==
    {[ZeroCommand EXCEPT !.arg_variables = <<"ls">>, !.input_file = i,
                         !.output_file = o, !.is_background = b] :
        i \in {Null, "d"}, o \in {Null, "d", "e"}, b \in BOOLEAN}

RedirInit ==
    /\ pc = "manage"
    /\ current_command \in RedirCommands
    /\ latest_status = 0
    /\ foreground_only = 0
    /\ disposition = MainDispositions
    /\ spawnpid = 0
    /\ children = [p \in Pids |-> Unborn]
    /\ out = <<>>
    /\ nTstp = 0
    /\ lastFg = NoOutcome
    /\ req = NoReq
    /\ heap = "live"
    /\ input_buffer = NoLine
    /\ parsed = <<>>
    /\ scan = NoScan
    /\ fds \in {[NoFds EXCEPT !.inOK = a, !.outOK = b, !.nullOK = c] :
                  a \in BOOLEAN, b \in BOOLEAN, c \in BOOLEAN}

\* The child runs file_redirection: it exits with 1, or goes on to execvp
\* with its streams bound.
Redirect ==
    /\ fds.state = "idle"
    /\ LET r == FileRedirection(current_command, fds.inOK, fds.outOK, fds.nullOK)
       IN fds' = [fds EXCEPT !.state = IF r.exit THEN "exit 1" ELSE "execvp",
                             !.child = [stdin |-> r.stdin, stdout |-> r.stdout],
                             !.trunc = r.trunc,
                             !.err = r.err]
    /\ UNCHANGED <<ShellVars, input_buffer, parsed, scan>>

RedirNext == Redirect

RedirSpec == RedirInit /\ [][RedirNext]_vars

\* The stream file_redirection leaves for one side: the named file if a path
\* is given, else /dev/null for a background command, else the shell's.
Bound(path, inherited) ==
    IF path # Null THEN path
    ELSE IF current_command.is_background THEN "/dev/null"
    ELSE inherited

\* The open of one side succeeds, by the files that can be opened.
SideOpens(path, ok) ==
    IF path # Null THEN ok
    ELSE IF current_command.is_background THEN fds.nullOK
    ELSE TRUE

\* C15: for the 8 combinations of (input path given, output path given,
\* background), when its opens succeed file_redirection leaves the child with
\* stdin = the named input file, else /dev/null if background, else the
\* shell's stdin, and stdout = the named output file (created or truncated),
\* else /dev/null if background, else the shell's stdout, each side by its
\* own path; a path wins over the /dev/null default; the streams of the shell
\* are not changed.
C15_StreamsBoundIndependently ==
    /\ fds.shell = NoFds.shell
    /\ fds.state = "execvp"
         => /\ fds.child.stdin = Bound(current_command.input_file, fds.shell.stdin)
            /\ fds.child.stdout = Bound(current_command.output_file, fds.shell.stdout)
            /\ fds.trunc = current_command.output_file
    /\ fds.state # "idle"
         => (fds.state = "execvp"
                <=> /\ SideOpens(current_command.input_file, fds.inOK)
                    /\ SideOpens(current_command.output_file, fds.outOK))

\* A background command with an input path and no output path: stdin is the
\* file, stdout is /dev/null.
C15_Witness ==
    /\ fds.state = "execvp"
    /\ current_command.is_background
    /\ current_command.input_file = "d" /\ current_command.output_file = Null
    /\ fds.child = [stdin |-> "d", stdout |-> "/dev/null"]

\* The open of the input side fails.
InputSideFails == ~SideOpens(current_command.input_file, fds.inOK)

\* C20: the input side is handled before the output side: when the input
\* file (or /dev/null, for a background command without input path) cannot
\* be opened, the child exits with 1 before the output file is opened: the
\* named output file is neither created nor truncated and stdout is not
\* rebound.
C20_InputBeforeOutput ==
    (fds.state # "idle" /\ InputSideFails)
        => /\ fds.state = "exit 1"
           /\ fds.trunc = Null
           /\ fds.child.stdout = fds.shell.stdout
           /\ fds.err = IF current_command.input_file # Null
                        THEN "cannot open for input" ELSE "open error"

\* The input file cannot be opened while the named output file could: the
\* child has exited with 1 and the output file is untouched.
C20_Witness ==
    /\ fds.state = "exit 1"
    /\ current_command.input_file = "d" /\ current_command.output_file = "e"
    /\ ~fds.inOK /\ fds.outOK
    /\ fds.trunc = Null

\* The step in which exec_commands returns because fork failed.
ForkFails == pc = "fork" /\ children' = children /\ pc' # pc

\* C16: when fork fails the error is reported, no child exists, the shell
\* does not wait, latest_status keeps its value, no "background pid is" line
\* is printed even for a command that asked for background, and the shell
\* goes on to the next iteration of its loop, up to the next prompt.
C16_ForkFailureLeavesStatus ==
    /\ [][ ForkFails
            => /\ out' = Append(out, Msg("fork: error", 0, 0))
               /\ latest_status' = latest_status
               /\ Born' = Born
               /\ spawnpid' = spawnpid
               /\ pc' = "track" ]_vars
    /\ [](BeforeNextPrompt /\ req.launched = "forkfail"
            => /\ Printed(Msg("fork: error", 0, 0))
               /\ \A p \in Pids : ~Printed(BackgroundPidIs(p))
               /\ latest_status = WaitStatus(lastFg))
    /\ (pc = "track" /\ req.launched = "forkfail") ~> (pc = "read")

\* fork has failed for a command that asked for background, after a
\* foreground command ended with a non-zero exit value, still the status.
C16_Witness ==
    /\ pc = "prompt"
    /\ req.launched = "forkfail"
    /\ req.amp /\ req.fo = 0 /\ ~req.path
    /\ latest_status = WaitStatus(Exited(1))

\* C17: every Command parse_input hands to the dispatcher has a non-empty
\* argument sequence: arg_count >= 1 and arg_variables[0] is a string. Lines
\* without a program name (blank, comment, spaces only, only redirection or
\* "&" tokens) produce no Command.
C17_CommandHasName ==
    pc = "builtin" => arg_count(current_command) >= 1

(***************************************************************************)
(* The token loop of parse_input on a line of any length: strtok finds the *)
(* words one after the other in the bytes fgets stored (at most            *)
(* INPUT_LENGTH - 1), each word is stored in arg_variables[arg_count++]    *)
(* and NULL is written at arg_variables[arg_count]. A write outside the    *)
(* MAX_ARGS + 1 slots is undefined: nothing is said of what follows it.    *)
(***************************************************************************)
WordLens == 1..MaxWord

ScanInit ==
    /\ Boot
    /\ input_buffer = NoLine
    /\ parsed = <<>>
    /\ scan = [NoScan EXCEPT !.state = "scanning"]
    /\ fds = NoFds

\* strtok returns one more word of len bytes, after the separator.
ScanWord ==
    /\ scan.state = "scanning"
    /\ \E len \in WordLens :
        LET start == IF scan.pos = 0 THEN 0 ELSE scan.pos + 1
            count == scan.arg_count + 1
        IN /\ start + len <= INPUT_LENGTH - 1
           /\ scan' = [pos |-> start + len,
                       arg_count |-> count,
                       null_at |-> count,
                       state |-> IF count > MAX_ARGS THEN "overflow"
                                 ELSE "scanning"]
    /\ UNCHANGED <<ShellVars, input_buffer, parsed, fds>>

\* strtok returns NULL: the loop ends and parse_input returns.
ScanEnd ==
    /\ scan.state = "scanning"
    /\ scan' = [scan EXCEPT !.state = "returned"]
    /\ UNCHANGED <<ShellVars, input_buffer, parsed, fds>>

ScanNext == ScanWord \/ ScanEnd

ScanSpec == ScanInit /\ [][ScanNext]_vars

\* C18: for every line within the line limit, the number of arguments stored
\* never exceeds MAX_ARGS and the terminating NULL is written at an index
\* within the MAX_ARGS + 1 slots of arg_variables (0 .. MAX_ARGS).
C18_ArgumentsWithinSlots ==
    /\ scan.arg_count <= MAX_ARGS
    /\ scan.null_at <= MAX_ARGS

\* C19: in the shell process every Command allocated by parse_input is
\* released by empty_heap_memory exactly once before the next line is parsed
\* or the shell exits, on every path of the dispatch (exit, cd, status,
\* foreground launch, background launch, fork failure): outside a dispatch
\* no Command is live, none is freed twice, and the Command in use during a
\* dispatch has not been freed.
C19_CommandReleasedOnce ==
    /\ pc \in {"track", "prompt", "read", "exited"} => heap \in {"none", "freed"}
    /\ heap # "double free"
    /\ pc \in {"builtin", "fork", "manage", "wait"} => heap = "live"

====
